---- MODULE Spec2Model ----
(***************************************************************************)
(* neo4j-redis (src/index.js): the Transaction object, its execute()       *)
(* promise chain over the Neo4j HTTP transaction endpoint, the optional    *)
(* Redis read-through, and the QueryBuilder that renders the statements.   *)
(*                                                                         *)
(* Strings that the code transforms (query fragments) are sequences of     *)
(* one-character strings; strings the code only passes along (URLs,        *)
(* prefixes, keys, messages) are TLA+ strings.  Every JavaScript value a   *)
(* promise settles with is a record [type, payload].                       *)
(***************************************************************************)
EXTENDS Integers, Sequences, FiniteSets, TLC

\* ---------------------------------------------------------------- bounds
MaxTx == 1           \* Transaction objects the facade creates
MaxExec == 2         \* execute() calls over all transactions
MaxStatements == 2   \* successful addQuery calls per transaction
MaxChars == 4        \* characters held by one QueryBuilder, over all fragments
MaxFragments == 3    \* fragments held by one QueryBuilder
MaxColumns == 2      \* columns of a result entry given to getSimpleData
MaxRows == 2         \* data rows of a result entry
MaxCells == 2        \* cells of one data row
MaxProps == 2        \* properties of the object given to toProps

\* ------------------------------------------------------ program constants
HTTP_OK == 200
HTTP_CREATED == 201

TransactionPath == "/db/data/transaction"

\* ---------------------------------------------------------------- values
Undefined == [type |-> "undefined", payload |-> <<>>]
EmptyObject == [type |-> "object", payload |-> <<>>]
Arr(items) == [type |-> "array", payload |-> items]
Err(message) == [type |-> "Error", payload |-> <<message>>]
ReferenceError == [type |-> "ReferenceError", payload |-> <<"cacher is not defined">>]
FetchError == [type |-> "FetchError", payload |-> <<"request failed">>]
JsonError == [type |-> "SyntaxError", payload |-> <<"invalid json">>]
CacheWriteError == [type |-> "CacheError", payload |-> <<"setData failed">>]
Null == [type |-> "null", payload |-> <<>>]
Num(text) == [type |-> "number", payload |-> <<text>>]
Chr(c) == [type |-> "string", payload |-> <<c>>]
TypeError == [type |-> "TypeError", payload |-> <<"Cannot read property '0' of undefined">>]

ReuseMessage == "Can't reuse transaction"
NoCacherMessage == "Attempt to use cacher without calling initCacheDB()"
CommitFailedMessage == "commit failed"
UnsupportedMessage == "property type not supported"

\* ------------------------------------------------------------ environment
\* HTTP responses the database endpoint may give: status and status text.
Responses ==
  { [status |-> 200, statusText |-> "OK"],
    [status |-> 201, statusText |-> "Created"],
    [status |-> 404, statusText |-> "Not Found"] }

CommitUrl == "/db/data/transaction/1/commit"

\* JSON bodies of the batch POST response: {results, errors, commit}.
Bodies ==
  { [results |-> Arr(<<"row1">>), errors |-> Arr(<<>>), commit |-> CommitUrl],
    [results |-> Arr(<<"row2">>), errors |-> Arr(<<>>), commit |-> CommitUrl],
    [results |-> Arr(<<"row1">>), errors |-> Arr(<<"X">>), commit |-> CommitUrl] }

NoBody == [results |-> Undefined, errors |-> Undefined, commit |-> ""]
NoResponse == [status |-> 0, statusText |-> ""]

Prefixes == {"pa", "pb"}
Keys == {"k"}
Durations == {60}
CacheSlots == Prefixes \X Keys
CachedValue == Arr(<<"cached">>)
\* what the cache service holds when the program starts: a read under
\* prefix "pa" is a hit, a read under prefix "pb" is a miss
InitiallyStored == {<<"pa", "k">>}

\* ------------------------------------------------------------ QueryBuilder
Whitespace == {" ", "\n", "\r", "\t"}
LineBreaks == {"\n", "\r", "\t"}

RECURSIVE Join(_)
\* Array.prototype.join(' ') over the fragments
Join(q) ==
  IF q = <<>> THEN <<>>
  ELSE IF Len(q) = 1 THEN Head(q)
  ELSE Head(q) \o <<" ">> \o Join(Tail(q))

RECURSIVE SkipWhitespace(_)
SkipWhitespace(s) ==
  IF s # <<>> /\ Head(s) \in Whitespace THEN SkipWhitespace(Tail(s)) ELSE s

RECURSIVE CollapseRuns(_)
\* replace(/\s\s+/g, ' '): a run of two or more whitespace characters
\* becomes one space; a lone whitespace character is kept as it is
CollapseRuns(s) ==
  IF s = <<>> THEN <<>>
  ELSE IF Head(s) \in Whitespace /\ Len(s) >= 2 /\ s[2] \in Whitespace
       THEN <<" ">> \o CollapseRuns(SkipWhitespace(s))
       ELSE <<Head(s)>> \o CollapseRuns(Tail(s))

StripLineBreaks_OnlyNewlines(s) == SelectSeq(s, LAMBDA c : c # "\n")

\* replace(/(?:\r\n|\r|\n|\t)/g, ''): every CR, LF and TAB is removed
StripLineBreaks(s) == SelectSeq(s, LAMBDA c : c \notin LineBreaks)

RECURSIVE TrimLeft(_)
TrimLeft(s) ==
  IF s # <<>> /\ Head(s) \in Whitespace THEN TrimLeft(Tail(s)) ELSE s

RECURSIVE TrimRight(_)
TrimRight(s) ==
  IF s # <<>> /\ s[Len(s)] \in Whitespace
  THEN TrimRight(SubSeq(s, 1, Len(s) - 1)) ELSE s

Trim(s) == TrimRight(TrimLeft(s))

\* QueryBuilder.toString()
toString(q) == Trim(StripLineBreaks(CollapseRuns(Join(q))))

\* The arguments of addQuery: a QueryBuilder (its fragment list q) and params.
Queries ==
  { [queryBuilder |-> << <<"M", " ", "n">>, <<"R">> >>, params |-> "p1"],
    [queryBuilder |-> << <<"C", "\n">>, <<"\t", "R", " ">> >>, params |-> "p2"] }

\* ------------------------------------------------------------------ state
VARIABLES
  neo4j,         \* the facade: graphDatabaseUrl, auth, cacher (handle present?)
  tx,            \* the Transaction objects, in creation order
  exec,          \* one record per execute() call: promise, closure, requests
  globalCacher,  \* does the free identifier `cacher` resolve? The module never
                 \* declares it (only this.cacher and the class Cacher), so it is
                 \* unbound unless the host process has set it on the global object
  cache,         \* that cache client: current prefix and stored entries
  lastCall,      \* the latest step, if it was addQuery or cacheable: what it
                 \* returned or threw, whether it wrote to the Transaction, and
                 \* the arguments it read (addQuery reads them only past its guard)
  helperArg,     \* the object a helper call works on: the QueryBuilder's q, the
                 \* result handed to getSimpleData, the obj handed to toProps
  helperRet      \* what the latest helper call returned or threw

vars == <<neo4j, tx, exec, globalCacher, cache, lastCall, helperArg, helperRet>>

NoArgs == [queryBuilder |-> <<>>, params |-> ""]
NoCall == [op |-> "none", tx |-> 0, args |-> NoArgs, returned |-> 0,
           threw |-> Undefined, changed |-> FALSE]
NoReturn == [called |-> FALSE, threw |-> FALSE, value |-> <<>>]

\* Neo4j constructor
NewNeo4j == [graphDatabaseUrl |-> "", auth |-> "", cacher |-> FALSE]

\* Transaction constructor
NewTransaction(transactionUrl, auth, cacher) ==
  [ used |-> FALSE,
    auth |-> auth,
    cacher |-> cacher,
    cached |-> FALSE,
    cachable |-> FALSE,
    cachePrefix |-> "",
    cacheKey |-> "",
    cacheDuration |-> 0,
    transactionUrl |-> transactionUrl,
    statements |-> <<>> ]

\* new Promise(...) of execute() together with the locals its callbacks close over
NewExec(t) ==
  [ tx |-> t,
    cacheSlot |-> <<>>,
    cacheRead |-> "none",
    pc |-> "start",
    state |-> "pending",
    value |-> Undefined,
    result |-> EmptyObject,
    res |-> NoResponse,
    json |-> NoBody,
    commitRes |-> NoResponse,
    rollback |-> "none",
    calls |-> <<>> ]

Init ==
  /\ neo4j = NewNeo4j
  /\ tx = <<>>
  /\ exec = <<>>
  /\ globalCacher \in BOOLEAN
  /\ cache = [prefix |-> "",
              store |-> [s \in CacheSlots |->
                           IF s \in InitiallyStored THEN CachedValue ELSE Undefined]]
  /\ lastCall = NoCall
  /\ helperArg = <<>>
  /\ helperRet = NoReturn

\* ---------------------------------------------------------------- helpers
\* a request to the HTTP layer or to the cache client, with the body it carries
Request(op, target, body) == [op |-> op, target |-> target, body |-> body]
Call(op, target) == Request(op, target, <<>>)

Settle_Lost(x, how, v) == x

\* resolve(v) / reject(v) of a promise: only a pending promise settles
Settle(x, how, v) ==
  IF x.state = "pending" THEN [x EXCEPT !.state = how, !.value = v] ELSE x

ExecutedOn(t) == \E e \in DOMAIN exec : exec[e].tx = t

\* ------------------------------------------------------------------ facade
\* Neo4j.initCacheDB
InitCacheDB ==
  /\ neo4j' = [neo4j EXCEPT !.cacher = TRUE]
  /\ lastCall' = NoCall
  /\ UNCHANGED <<tx, exec, globalCacher, cache, helperArg, helperRet>>

\* Neo4j.createTransaction
CreateTransaction ==
  /\ Len(tx) < MaxTx
  /\ tx' = Append(tx, NewTransaction(neo4j.graphDatabaseUrl \o TransactionPath,
                                     neo4j.auth, neo4j.cacher))
  /\ lastCall' = NoCall
  /\ UNCHANGED <<neo4j, exec, globalCacher, cache, helperArg, helperRet>>

\* ------------------------------------------------------------- Transaction
PushStatement_Unshift(statements, entry) == <<entry>> \o statements

\* Transaction.addQuery: this.statements.push({statement, parameters})
PushStatement(statements, entry) == Append(statements, entry)

\* Transaction.addQuery
AddQuery(t, queryBuilder, params) ==
  /\ t \in DOMAIN tx
  /\ IF tx[t].used
     THEN /\ lastCall' = [op |-> "addQuery", tx |-> t, args |-> NoArgs,
                          returned |-> 0, threw |-> Err(ReuseMessage),
                          changed |-> FALSE]
          /\ UNCHANGED tx
     ELSE /\ Len(tx[t].statements) < MaxStatements
          /\ tx' = [tx EXCEPT ![t].statements =
                      PushStatement(@, [statement |-> toString(queryBuilder),
                                        parameters |-> params])]
          /\ lastCall' = [op |-> "addQuery", tx |-> t,
                          args |-> [queryBuilder |-> queryBuilder, params |-> params],
                          returned |-> t, threw |-> Undefined,
                          changed |-> TRUE]
  /\ UNCHANGED <<neo4j, exec, globalCacher, cache, helperArg, helperRet>>

NoCacher_Unchecked(t) == FALSE

NoCacher_Inverted(t) == tx[t].cacher

\* Transaction.cacheable: the test !this.cacher
NoCacher(t) == ~tx[t].cacher

\* Transaction.cacheable
Cacheable(t, prefix, key, duration) ==
  /\ t \in DOMAIN tx
  /\ IF NoCacher(t)
     THEN /\ lastCall' = [op |-> "cacheable", tx |-> t, args |-> NoArgs,
                          returned |-> 0, threw |-> Err(NoCacherMessage),
                          changed |-> FALSE]
          /\ UNCHANGED tx
     ELSE /\ tx' = [tx EXCEPT ![t].cached = TRUE,
                              ![t].cachePrefix = prefix,
                              ![t].cacheKey = key,
                              ![t].cacheDuration = duration]
          /\ lastCall' = [op |-> "cacheable", tx |-> t, args |-> NoArgs,
                          returned |-> 0, threw |-> Undefined,
                          changed |-> TRUE]
  /\ UNCHANGED <<neo4j, exec, globalCacher, cache, helperArg, helperRet>>

ProcessTransaction_Retry(x, t) ==
  [x EXCEPT !.pc = "batch",
            !.calls = @ \o << Request("post", <<tx[t].transactionUrl>>, tx[t].statements),
                              Request("post", <<tx[t].transactionUrl>>, tx[t].statements) >>]

\* Transaction._processTransaction, its synchronous part: the batch POST is
\* issued and the callbacks are chained; the caller then sets this.used
ProcessTransaction(x, t) ==
  [x EXCEPT !.pc = "batch",
            !.calls = Append(@, Request("post", <<tx[t].transactionUrl>>,
                                        tx[t].statements))]

MarkUsed_Skipped(t) == tx

\* Transaction._processTransaction: this.used = true
MarkUsed(t) == [tx EXCEPT ![t].used = TRUE]

\* Transaction.execute, up to the return of the promise
Execute(t) ==
  /\ t \in DOMAIN tx
  /\ Len(exec) < MaxExec
  /\ IF tx[t].cached
     THEN IF ~globalCacher
          THEN \* `cacher` is unbound: the executor throws, the promise rejects
               /\ exec' = Append(exec,
                    [Settle(NewExec(t), "rejected", ReferenceError) EXCEPT
                       !.pc = "done",
                       !.cacheRead = "threw",
                       !.cacheSlot = <<tx[t].cachePrefix, tx[t].cacheKey>>])
               /\ UNCHANGED <<tx, cache>>
          ELSE /\ cache' = [cache EXCEPT !.prefix = tx[t].cachePrefix]
               /\ exec' = Append(exec,
                    [NewExec(t) EXCEPT
                       !.pc = "cacheRead",
                       !.cacheRead = "pending",
                       !.cacheSlot = <<tx[t].cachePrefix, tx[t].cacheKey>>,
                       !.calls = << Call("setCachePrefix", <<tx[t].cachePrefix>>),
                                    Call("getData", <<tx[t].cachePrefix, tx[t].cacheKey>>) >>])
               /\ UNCHANGED tx
     ELSE /\ exec' = Append(exec, ProcessTransaction(NewExec(t), t))
          /\ tx' = MarkUsed(t)
          /\ UNCHANGED cache
  /\ lastCall' = NoCall
  /\ UNCHANGED <<neo4j, globalCacher, helperArg, helperRet>>

ReadSlot_CurrentPrefix(e) == <<cache.prefix, exec[e].cacheSlot[2]>>

\* the cache entry the getData of execution e reads: prefix and key
ReadSlot(e) == <<exec[e].cacheSlot[1], exec[e].cacheSlot[2]>>

\* execute: getData(...).then(cachedData => resolve(cachedData))
CacheReadResolves(e) ==
  /\ e \in DOMAIN exec
  /\ exec[e].pc = "cacheRead"
  /\ cache.store[ReadSlot(e)] # Undefined
  /\ exec' = [exec EXCEPT ![e] =
                [Settle(@, "resolved", cache.store[ReadSlot(e)]) EXCEPT
                   !.pc = "done", !.cacheRead = "hit"]]
  /\ lastCall' = NoCall
  /\ UNCHANGED <<neo4j, tx, globalCacher, cache, helperArg, helperRet>>

\* execute: getData(...).catch(reason => this._processTransaction(resolve, reject));
\* the read rejects on a miss, and may reject on a failure of the cache service
CacheReadRejects(e, reason) ==
  /\ e \in DOMAIN exec
  /\ exec[e].pc = "cacheRead"
  /\ reason = "miss" => cache.store[ReadSlot(e)] = Undefined
  /\ exec' = [exec EXCEPT ![e] =
                [ProcessTransaction(@, exec[e].tx) EXCEPT !.cacheRead = reason]]
  /\ tx' = MarkUsed(exec[e].tx)
  /\ lastCall' = NoCall
  /\ UNCHANGED <<neo4j, globalCacher, cache, helperArg, helperRet>>

BatchRefused_OnlyServerErrors(r) == r.status >= 500

\* _processTransaction: the status test on the batch response
BatchRefused(r) == r.status # HTTP_OK /\ r.status # HTTP_CREATED

\* _processTransaction: first .then, the response of the batch POST
BatchResponse(e, r) ==
  /\ e \in DOMAIN exec
  /\ exec[e].pc = "batch"
  /\ IF BatchRefused(r)
     THEN exec' = [exec EXCEPT ![e] =
                     [Settle(@, "rejected", Err(r.statusText)) EXCEPT
                        !.pc = "done",
                        !.res = r,
                        !.rollback = "inflight",
                        !.calls = Append(@, Call("delete",
                                     <<tx[exec[e].tx].transactionUrl>>))]]
     ELSE exec' = [exec EXCEPT ![e].pc = "json", ![e].res = r]
  /\ lastCall' = NoCall
  /\ UNCHANGED <<neo4j, tx, globalCacher, cache, helperArg, helperRet>>

\* _processTransaction: the batch POST fails in transport, .catch(reject)
BatchFetchFails(e) ==
  /\ e \in DOMAIN exec
  /\ exec[e].pc = "batch"
  /\ exec' = [exec EXCEPT ![e] = [Settle(@, "rejected", FetchError) EXCEPT !.pc = "done"]]
  /\ lastCall' = NoCall
  /\ UNCHANGED <<neo4j, tx, globalCacher, cache, helperArg, helperRet>>

HasErrors_Unchecked(json) == FALSE

\* _processTransaction: the test on the errors array of the body
HasErrors(json) == Len(json.errors.payload) > 0

CaptureResult_Forgotten(json) == EmptyObject

\* _processTransaction: result = json.results
CaptureResult(json) == json.results

\* _processTransaction: second .then, the parsed body of the batch response
JsonParsed(e, json) ==
  /\ e \in DOMAIN exec
  /\ exec[e].pc = "json"
  /\ IF HasErrors(json)
     THEN exec' = [exec EXCEPT ![e] =
                     [Settle(@, "rejected", json.errors) EXCEPT
                        !.pc = "done", !.json = json]]
     ELSE exec' = [exec EXCEPT ![e].pc = "commit",
                               ![e].json = json,
                               ![e].result = CaptureResult(json),
                               ![e].calls = Append(@, Call("post", <<json.commit>>))]
  /\ lastCall' = NoCall
  /\ UNCHANGED <<neo4j, tx, globalCacher, cache, helperArg, helperRet>>

\* _processTransaction: res.json() rejects, .catch(reject)
JsonFails(e) ==
  /\ e \in DOMAIN exec
  /\ exec[e].pc = "json"
  /\ exec' = [exec EXCEPT ![e] = [Settle(@, "rejected", JsonError) EXCEPT !.pc = "done"]]
  /\ lastCall' = NoCall
  /\ UNCHANGED <<neo4j, tx, globalCacher, cache, helperArg, helperRet>>

CommitSucceeded_AlsoCreated(r) == r.status = HTTP_OK \/ r.status = HTTP_CREATED

\* _processTransaction: the status test on the finalize response
CommitSucceeded(r) == r.status = HTTP_OK

IsCachable_Cached(t) == tx[t].cached

\* _processTransaction: the test this.cachable; the constructor and cacheable
\* set this.cached, nothing sets this.cachable
IsCachable(t) == tx[t].cachable

\* _processTransaction: third .then, the response of the finalize POST; a
\* throw of the cache client inside it reaches .catch(reject)
CommitResponse(e, r, writeThrows) ==
  /\ e \in DOMAIN exec
  /\ exec[e].pc = "commit"
  /\ LET t == exec[e].tx
         x == [exec[e] EXCEPT !.pc = "done", !.commitRes = r]
     IN IF CommitSucceeded(r)
        THEN IF IsCachable(t)
             THEN IF NoCacher(t)
                  THEN /\ exec' = [exec EXCEPT ![e] =
                                     Settle(x, "rejected", Err(NoCacherMessage))]
                       /\ UNCHANGED cache
                  ELSE IF ~globalCacher
                  THEN /\ exec' = [exec EXCEPT ![e] =
                                     Settle(x, "rejected", ReferenceError)]
                       /\ UNCHANGED cache
                  ELSE IF writeThrows
                  THEN /\ exec' = [exec EXCEPT ![e] =
                                     Settle([x EXCEPT !.calls = @ \o
                                        << Call("setCachePrefix", <<tx[t].cachePrefix>>),
                                           Call("setData", <<tx[t].cachePrefix,
                                                             tx[t].cacheKey>>) >>],
                                            "rejected", CacheWriteError)]
                       /\ cache' = [cache EXCEPT !.prefix = tx[t].cachePrefix]
                  ELSE /\ cache' = [prefix |-> tx[t].cachePrefix,
                                    store |-> [cache.store EXCEPT
                                       ![<<tx[t].cachePrefix, tx[t].cacheKey>>] = x.result]]
                       /\ exec' = [exec EXCEPT ![e] =
                            Settle([x EXCEPT !.calls = @ \o
                                      << Call("setCachePrefix", <<tx[t].cachePrefix>>),
                                         Call("setData", <<tx[t].cachePrefix,
                                                           tx[t].cacheKey>>) >>],
                                   "resolved", x.result)]
             ELSE /\ exec' = [exec EXCEPT ![e] = Settle(x, "resolved", x.result)]
                  /\ UNCHANGED cache
        ELSE /\ exec' = [exec EXCEPT ![e] =
                           Settle(x, "rejected", Err(CommitFailedMessage))]
             /\ UNCHANGED cache
  /\ lastCall' = NoCall
  /\ UNCHANGED <<neo4j, tx, globalCacher, helperArg, helperRet>>

\* _processTransaction: the finalize POST fails in transport, .catch(reject)
CommitFetchFails(e) ==
  /\ e \in DOMAIN exec
  /\ exec[e].pc = "commit"
  /\ exec' = [exec EXCEPT ![e] = [Settle(@, "rejected", FetchError) EXCEPT !.pc = "done"]]
  /\ lastCall' = NoCall
  /\ UNCHANGED <<neo4j, tx, globalCacher, cache, helperArg, helperRet>>

\* the rollback DELETE settles; nothing is chained on its promise
RollbackSettles(e, outcome) ==
  /\ e \in DOMAIN exec
  /\ exec[e].rollback = "inflight"
  /\ exec' = [exec EXCEPT ![e].rollback = outcome]
  /\ lastCall' = NoCall
  /\ UNCHANGED <<neo4j, tx, globalCacher, cache, helperArg, helperRet>>

TxIds == 1..MaxTx
ExecIds == 1..MaxExec

Next ==
  \/ InitCacheDB
  \/ CreateTransaction
  \/ \E t \in TxIds, q \in Queries : AddQuery(t, q.queryBuilder, q.params)
  \/ \E t \in TxIds, prefix \in Prefixes, key \in Keys, d \in Durations :
       Cacheable(t, prefix, key, d)
  \/ \E t \in TxIds : Execute(t)
  \/ \E e \in ExecIds : CacheReadResolves(e)
  \/ \E e \in ExecIds, reason \in {"miss", "error"} : CacheReadRejects(e, reason)
  \/ \E e \in ExecIds, r \in Responses : BatchResponse(e, r)
  \/ \E e \in ExecIds : BatchFetchFails(e)
  \/ \E e \in ExecIds, json \in Bodies : JsonParsed(e, json)
  \/ \E e \in ExecIds : JsonFails(e)
  \/ \E e \in ExecIds, r \in Responses, writeThrows \in BOOLEAN :
       CommitResponse(e, r, writeThrows)
  \/ \E e \in ExecIds : CommitFetchFails(e)
  \/ \E e \in ExecIds, outcome \in {"ok", "failed"} : RollbackSettles(e, outcome)

Spec == Init /\ [][Next]_vars

\* Two transactions of one facade, side by side. Both come from
\* createTransaction; when the facade holds a cache handle each may have been
\* made cacheable, the first under prefix "pa", the second under "pb".
PairPrefixes == <<"pa", "pb">>
PairQuery(t) == CHOOSE q \in Queries : q.params = (IF t = 1 THEN "p1" ELSE "p2")

PairTransaction(t, cached) ==
  LET new == NewTransaction(neo4j.graphDatabaseUrl \o TransactionPath,
                            neo4j.auth, neo4j.cacher)
  IN IF cached
     THEN [new EXCEPT !.cached = TRUE, !.cachePrefix = PairPrefixes[t],
                      !.cacheKey = "k", !.cacheDuration = 60]
     ELSE new

InitPair ==
  /\ neo4j \in {[NewNeo4j EXCEPT !.cacher = c] : c \in BOOLEAN}
  /\ tx \in { <<PairTransaction(1, a), PairTransaction(2, b)>> :
               a \in {FALSE, neo4j.cacher}, b \in {FALSE, neo4j.cacher} }
  /\ exec = <<>>
  /\ globalCacher \in BOOLEAN
  /\ cache = [prefix |-> "",
              store |-> [s \in CacheSlots |->
                           IF s \in InitiallyStored THEN CachedValue ELSE Undefined]]
  /\ lastCall = NoCall
  /\ helperArg = <<>>
  /\ helperRet = NoReturn

NextPair ==
  \/ \E t \in DOMAIN tx : AddQuery(t, PairQuery(t).queryBuilder, PairQuery(t).params)
  \/ \E t \in DOMAIN tx : Execute(t)
  \/ \E e \in ExecIds : CacheReadResolves(e)
  \/ \E e \in ExecIds, reason \in {"miss", "error"} : CacheReadRejects(e, reason)
  \/ \E e \in ExecIds, r \in Responses : BatchResponse(e, r)
  \/ \E e \in ExecIds : BatchFetchFails(e)
  \/ \E e \in ExecIds, json \in Bodies : JsonParsed(e, json)
  \/ \E e \in ExecIds : JsonFails(e)
  \/ \E e \in ExecIds, r \in Responses, writeThrows \in BOOLEAN :
       CommitResponse(e, r, writeThrows)
  \/ \E e \in ExecIds : CommitFetchFails(e)
  \/ \E e \in ExecIds, outcome \in {"ok", "failed"} : RollbackSettles(e, outcome)

SpecPair == InitPair /\ [][NextPair]_vars

\* The callback execute() call e is waiting for: the outcome of its cache
\* read, of its batch POST, of res.json(), or of its finalize POST.
Completion(e) ==
  \/ CacheReadResolves(e)
  \/ \E reason \in {"miss", "error"} : CacheReadRejects(e, reason)
  \/ \E r \in Responses : BatchResponse(e, r)
  \/ BatchFetchFails(e)
  \/ \E json \in Bodies : JsonParsed(e, json)
  \/ JsonFails(e)
  \/ \E r \in Responses, writeThrows \in BOOLEAN : CommitResponse(e, r, writeThrows)
  \/ CommitFetchFails(e)

\* Every issued cache read and HTTP request of the chain completes; the
\* rollback DELETE, on which nothing is chained, is left free.
NextFair ==
  \/ \E t \in DOMAIN tx : Execute(t)
  \/ \E e \in ExecIds : Completion(e)
  \/ \E e \in ExecIds, outcome \in {"ok", "failed"} : RollbackSettles(e, outcome)

SpecFair == InitPair /\ [][NextFair]_vars /\ \A e \in ExecIds : WF_vars(Completion(e))


\* ------------------------------------------------- QueryBuilder on its own
\* What add() is given: a string fragment or an array of such arguments.
Alphabet == {"a", " ", "\n", "\r", "\t"}
Str(chars) == [isArray |-> FALSE, chars |-> chars, items |-> <<>>]
List(items) == [isArray |-> TRUE, chars |-> <<>>, items |-> items]
StringsUpTo(n) == UNION {[1..k -> Alphabet] : k \in 0..n}

RECURSIVE TotalChars(_)
TotalChars(q) == IF q = <<>> THEN 0 ELSE Len(Head(q)) + TotalChars(Tail(q))

RECURSIVE add(_, _)
\* QueryBuilder.add(partial): an array is added element by element, anything
\* else is pushed onto q
add(q, partial) ==
  IF partial.isArray
  THEN IF partial.items = <<>> THEN q
       ELSE add(add(q, Head(partial.items)), List(Tail(partial.items)))
  ELSE Append(q, partial.chars)

\* new QueryBuilder(): q = []
InitQB ==
  /\ neo4j = NewNeo4j
  /\ tx = <<>>
  /\ exec = <<>>
  /\ globalCacher = FALSE
  /\ cache = [prefix |-> "", store |-> [s \in CacheSlots |-> Undefined]]
  /\ lastCall = NoCall
  /\ helperArg = <<>>
  /\ helperRet = NoReturn

\* builder.add('...')
QBAddString ==
  /\ Len(helperArg) < MaxFragments
  /\ \E f \in StringsUpTo(MaxChars - TotalChars(helperArg)) :
       helperArg' = add(helperArg, Str(f))
  /\ helperRet' = NoReturn
  /\ UNCHANGED <<neo4j, tx, exec, globalCacher, cache, lastCall>>

\* builder.add([..., [...]]): an array, empty or holding a string and a nested
\* array of one string
QBAddArray ==
  /\ \/ helperArg' = add(helperArg, List(<<>>))
     \/ /\ Len(helperArg) + 2 <= MaxFragments
        /\ \E f \in StringsUpTo(MaxChars - TotalChars(helperArg)) :
             \E g \in StringsUpTo(MaxChars - TotalChars(helperArg) - Len(f)) :
               helperArg' = add(helperArg, List(<<Str(f), List(<<Str(g)>>)>>))
  /\ helperRet' = NoReturn
  /\ UNCHANGED <<neo4j, tx, exec, globalCacher, cache, lastCall>>

\* builder.toString()
QBToString ==
  /\ helperRet' = [called |-> TRUE, threw |-> FALSE, value |-> toString(helperArg)]
  /\ UNCHANGED <<neo4j, tx, exec, globalCacher, cache, lastCall, helperArg>>

NextQB == QBAddString \/ QBAddArray \/ QBToString

SpecQB == InitQB /\ [][NextQB]_vars


\* ---------------------------------------------------------- Neo4j helpers
Returns(v) == [called |-> TRUE, threw |-> FALSE, value |-> v]
Throws(v) == [called |-> TRUE, threw |-> TRUE, value |-> v]
SeqsUpTo(S, n) == UNION {[1..k -> S] : k \in 0..n}

\* The results arrays getSimpleData is given. A data row is the wrapped
\* object {row: [...]}, the bare array [...], or a primitive string.
Cells == {Num("42"), Num("7")}
Rows ==
  [shape : {"wrapped", "array"}, cells : SeqsUpTo(Cells, MaxCells)]
    \cup [shape : {"string"}, cells : SeqsUpTo({Chr("x")}, MaxCells)]
Entries ==
  [columns : SeqsUpTo({"n"}, MaxColumns), hasData : {TRUE}, data : SeqsUpTo(Rows, MaxRows)]
    \cup [columns : SeqsUpTo({"n"}, MaxColumns), hasData : {FALSE}, data : {<<>>}]
ResultsArrays == SeqsUpTo(Entries, 1)

\* typeof of a data row
TypeofRow(row) == IF row.shape \in {"wrapped", "array"} THEN "object" ELSE "string"

\* x[0] of an array or a string
First(cells) == IF cells = <<>> THEN Undefined ELSE cells[1]

\* Neo4j.getSimpleData(result)
getSimpleData(result) ==
  IF result = <<>> THEN Returns(Null)
  ELSE LET first == result[1] IN
    IF ~first.hasData \/ Len(first.data) = 0 THEN Returns(Null)
    ELSE IF Len(first.columns) = 1
         THEN IF TypeofRow(first.data[1]) = "object"
              THEN IF first.data[1].shape = "wrapped"
                   THEN Returns(First(first.data[1].cells))
                   ELSE Throws(TypeError)
              ELSE Returns(First(first.data[1].cells))
         ELSE Returns(Null)

InitSimpleData ==
  /\ neo4j = NewNeo4j
  /\ tx = <<>>
  /\ exec = <<>>
  /\ globalCacher = FALSE
  /\ cache = [prefix |-> "", store |-> [s \in CacheSlots |-> Undefined]]
  /\ lastCall = NoCall
  /\ helperArg \in ResultsArrays
  /\ helperRet = NoReturn

GetSimpleData ==
  /\ ~helperRet.called
  /\ helperRet' = getSimpleData(helperArg)
  /\ UNCHANGED <<neo4j, tx, exec, globalCacher, cache, lastCall, helperArg>>

NextSimpleData == GetSimpleData

SpecSimpleData == InitSimpleData /\ [][NextSimpleData]_vars


\* The flat objects toProps is given: a property is a key and a value of one
\* kind; the keys of an object are distinct and keep their insertion order.
PropKeys == {<<"a">>, <<"b">>, <<"c">>}
PropValues ==
  [kind : {"string"}, str : {<<"x">>}, num : {0}, bool : {FALSE}]
    \cup [kind : {"number"}, str : {<<>>}, num : {0, 12, -3}, bool : {FALSE}]
    \cup [kind : {"boolean"}, str : {<<>>}, num : {0}, bool : BOOLEAN]
    \cup [kind : {"array", "object"}, str : {<<>>}, num : {0}, bool : {FALSE}]
Props == [key : PropKeys, value : PropValues]
Objects ==
  {o \in SeqsUpTo(Props, MaxProps) :
     \A i \in DOMAIN o, j \in DOMAIN o : o[i].key = o[j].key => i = j}

\* typeof obj[k]: an array is an 'object'
Typeof(v) == IF v.kind \in {"array", "object"} THEN "object" ELSE v.kind

DigitChars == <<"0", "1", "2", "3", "4", "5", "6", "7", "8", "9">>

RECURSIVE Digits(_)
Digits(n) ==
  IF n < 10 THEN <<DigitChars[n + 1]>>
  ELSE Digits(n \div 10) \o <<DigitChars[(n % 10) + 1]>>

\* `${value}` of a number and of a boolean
NumberToString(n) == IF n < 0 THEN <<"-">> \o Digits(-n) ELSE Digits(n)
BooleanToString(b) == IF b THEN <<"t", "r", "u", "e">> ELSE <<"f", "a", "l", "s", "e">>

RECURSIVE JoinWith(_, _)
\* Array.prototype.join(separator)
JoinWith(parts, separator) ==
  IF parts = <<>> THEN <<>>
  ELSE IF Len(parts) = 1 THEN Head(parts)
  ELSE Head(parts) \o separator \o JoinWith(Tail(parts), separator)

\* the branch of toProps' forEach callback that handles one property
PropSupported(p) == Typeof(p.value) \in {"string", "number", "boolean", "array"}
RenderProp(p) ==
  IF Typeof(p.value) = "string" THEN p.key \o <<":", "\"">> \o p.value.str \o <<"\"">>
  ELSE IF Typeof(p.value) = "number" THEN p.key \o <<":">> \o NumberToString(p.value.num)
  ELSE IF Typeof(p.value) = "boolean" THEN p.key \o <<":">> \o BooleanToString(p.value.bool)
  ELSE p.key \o <<":", "[", "]">>

\* Neo4j.toProps(obj)
toProps(obj) ==
  IF \E i \in DOMAIN obj : ~PropSupported(obj[i])
  THEN Throws(Err(UnsupportedMessage))
  ELSE Returns(JoinWith([i \in DOMAIN obj |-> RenderProp(obj[i])], <<",", " ">>))

InitProps ==
  /\ neo4j = NewNeo4j
  /\ tx = <<>>
  /\ exec = <<>>
  /\ globalCacher = FALSE
  /\ cache = [prefix |-> "", store |-> [s \in CacheSlots |-> Undefined]]
  /\ lastCall = NoCall
  /\ helperArg \in Objects
  /\ helperRet = NoReturn

ToProps ==
  /\ ~helperRet.called
  /\ helperRet' = toProps(helperArg)
  /\ UNCHANGED <<neo4j, tx, exec, globalCacher, cache, lastCall, helperArg>>

NextProps == ToProps

SpecProps == InitProps /\ [][NextProps]_vars


\* ------------------------------------------------------------ observations
CallsOf(e, op) == {i \in DOMAIN exec[e].calls : exec[e].calls[i].op = op}

BatchPostsOf(e) ==
  {i \in CallsOf(e, "post") :
     exec[e].calls[i].target = <<tx[exec[e].tx].transactionUrl>>}

FinalizePostsOf(e) == CallsOf(e, "post") \ BatchPostsOf(e)

HttpCallsOf(e) == CallsOf(e, "post") \cup CallsOf(e, "delete")

CacheCallsOf(e) ==
  CallsOf(e, "setCachePrefix") \cup CallsOf(e, "getData") \cup CallsOf(e, "setData")

CacheEligibleAtExecute(e) == exec[e].cacheSlot # <<>>

ExecsOf(t) == {e \in DOMAIN exec : exec[e].tx = t}

\* ------------------------------------------------------------------ claims

\* C1: over any sequence of addQuery, cacheable and execute calls on one
\* Transaction, at most one batch POST to the transaction endpoint is issued.
\* (Violated: execute() does not test this.used, so a second execute() posts again.)
C1_AtMostOneBatchPost ==
  \A t \in DOMAIN tx :
    Cardinality(UNION { {<<e, i>> : i \in BatchPostsOf(e)} : e \in ExecsOf(t) }) <= 1

\* C2: once execute() has been called on a Transaction, every later addQuery
\* on it throws the reuse error and leaves the statement batch unchanged.
\* (Violated: this.used is set only when the network protocol starts.)
C2_AddQueryAfterExecuteFails ==
  (lastCall.op = "addQuery" /\ ExecutedOn(lastCall.tx))
    => (lastCall.threw = Err("Can't reuse transaction") /\ ~lastCall.changed)

\* C3: execute() of a cache-eligible Transaction whose key is held by the cache
\* (and whose cache read does not fail in the cache service) resolves with the
\* cached value and issues no HTTP request.
\* (Violated: the identifier `cacher` is unbound, execute() rejects.)
C3_CacheHitResolvesWithoutHttp ==
  \A e \in DOMAIN exec :
    ( /\ CacheEligibleAtExecute(e)
      /\ cache.store[ReadSlot(e)] # Undefined
      /\ exec[e].cacheRead \notin {"pending", "error"} )
    => /\ exec[e].state = "resolved"
       /\ exec[e].value = cache.store[ReadSlot(e)]
       /\ HttpCallsOf(e) = {}

\* C4: for a Transaction that is not cache-eligible, a batch response of
\* status 200 or 201 with an empty errors array and a commit URL, followed by
\* a finalize response of status 200, makes execute() resolve with exactly
\* the results of the batch response.
C4_CommitResolvesWithResults ==
  \A e \in DOMAIN exec :
    ( /\ ~CacheEligibleAtExecute(e)
      /\ exec[e].res.status \in {200, 201}
      /\ exec[e].json.commit # ""
      /\ Len(exec[e].json.errors.payload) = 0
      /\ exec[e].commitRes.status = 200 )
    => /\ exec[e].state = "resolved"
       /\ exec[e].value = exec[e].json.results

C4_Witness ==
  \E e \in DOMAIN exec :
    /\ ~CacheEligibleAtExecute(e)
    /\ exec[e].res.status = 201
    /\ exec[e].json.results = Arr(<<"row2">>)
    /\ Len(exec[e].json.errors.payload) = 0
    /\ exec[e].commitRes.status = 200
    /\ exec[e].state = "resolved"

\* C5: a batch response whose status is neither 200 nor 201 makes execute()
\* reject with an Error carrying the status text; exactly one DELETE goes to
\* the transaction endpoint, no finalize POST is issued, and this holds while
\* the DELETE is in flight, after it succeeded and after it failed.
C5_RefusedBatchRollsBackAndRejects ==
  \A e \in DOMAIN exec :
    (exec[e].res.status \notin {0, 200, 201})
    => /\ exec[e].state = "rejected"
       /\ exec[e].value = Err(exec[e].res.statusText)
       /\ Cardinality(CallsOf(e, "delete")) = 1
       /\ \A i \in CallsOf(e, "delete") :
            exec[e].calls[i].target = <<tx[exec[e].tx].transactionUrl>>
       /\ FinalizePostsOf(e) = {}
       /\ exec[e].rollback \in {"inflight", "ok", "failed"}

C5_Witness ==
  \E e \in DOMAIN exec :
    /\ exec[e].res.status = 404
    /\ exec[e].rollback = "failed"
    /\ exec[e].state = "rejected"
    /\ exec[e].value = Err("Not Found")

\* C6: a batch response of status 200 or 201 whose errors array is not empty
\* makes execute() reject with that errors array itself; neither a finalize
\* POST nor a rollback DELETE is issued.
C6_CypherErrorsRejectVerbatim ==
  \A e \in DOMAIN exec :
    ( /\ exec[e].res.status \in {200, 201}
      /\ exec[e].json.commit # ""
      /\ Len(exec[e].json.errors.payload) > 0 )
    => /\ exec[e].state = "rejected"
       /\ exec[e].value = exec[e].json.errors
       /\ FinalizePostsOf(e) = {}
       /\ CallsOf(e, "delete") = {}

C6_Witness ==
  \E e \in DOMAIN exec :
    /\ exec[e].res.status \in {200, 201}
    /\ exec[e].json.errors = Arr(<<"X">>)
    /\ exec[e].state = "rejected"
    /\ exec[e].value = Arr(<<"X">>)

\* C7: a finalize response of any status other than 200 makes execute()
\* reject with the commit-failed Error; it does not resolve with the captured
\* results and writes nothing to the cache.
C7_FailedCommitRejects ==
  \A e \in DOMAIN exec :
    (exec[e].commitRes.status \notin {0, 200})
    => /\ exec[e].state = "rejected"
       /\ exec[e].value = Err("commit failed")
       /\ CallsOf(e, "setData") = {}

C7_Witness ==
  \E e \in DOMAIN exec :
    /\ exec[e].commitRes.status = 201
    /\ exec[e].result = Arr(<<"row1">>)
    /\ exec[e].state = "rejected"
    /\ exec[e].value = Err("commit failed")

\* C8: for a cache-eligible Transaction whose cache read misses and whose
\* finalize POST returns 200, the batch results are written to the cache under
\* the configured prefix and key, and execute() resolves with those results.
\* (Violated: the commit handler tests this.cachable, which nothing sets.)
C8_CommitWritesCache ==
  \A e \in DOMAIN exec :
    ( /\ CacheEligibleAtExecute(e)
      /\ exec[e].cacheRead = "miss"
      /\ exec[e].commitRes.status = 200 )
    => /\ exec[e].state = "resolved"
       /\ exec[e].value = exec[e].json.results
       /\ \E i \in CallsOf(e, "setData") : exec[e].calls[i].target = exec[e].cacheSlot
       /\ cache.store[ReadSlot(e)] = exec[e].json.results

\* C9: for a cache-eligible Transaction, a cache miss or any error of the
\* cache read is not surfaced: execute() issues the batch POST and settles
\* with what the network protocol decides.
\* (Violated: the read throws ReferenceError, which rejects execute().)
C9_CacheFailureFallsThrough ==
  \A e \in DOMAIN exec :
    (CacheEligibleAtExecute(e) /\ exec[e].cacheRead \in {"threw", "miss", "error"})
    => /\ Cardinality(BatchPostsOf(e)) = 1
       /\ exec[e].value # ReferenceError

\* what holds of a Transaction constructed without a cache handle
HandleLess(t) ==
  /\ ~tx[t].cached
  /\ tx[t].cachePrefix = ""
  /\ tx[t].cacheKey = ""
  /\ tx[t].cacheDuration = 0
  /\ \A e \in ExecsOf(t) :
       /\ ~CacheEligibleAtExecute(e)
       /\ CacheCallsOf(e) = {}
       /\ exec[e].calls # <<>>
       /\ exec[e].calls[1].op = "post"
       /\ exec[e].calls[1].target = <<tx[t].transactionUrl>>

\* C10: cacheable on a Transaction constructed without a cache handle throws
\* the configuration Error, touches no cache and leaves the transaction as it
\* was: not cache-eligible, prefix, key and duration unchanged; every
\* execute() on it starts with the batch POST.
C10_CacheableWithoutHandleFails ==
  [][ \A t \in DOMAIN tx :
        ~tx[t].cacher =>
          /\ (lastCall'.op = "cacheable" /\ lastCall'.tx = t)
               => /\ lastCall'.threw =
                       Err("Attempt to use cacher without calling initCacheDB()")
                  /\ tx'[t] = tx[t]
                  /\ cache' = cache
          /\ HandleLess(t)' ]_vars

C10_Witness ==
  /\ lastCall.op = "cacheable"
  /\ lastCall.threw = Err("Attempt to use cacher without calling initCacheDB()")
  /\ ~tx[lastCall.tx].cacher
  /\ ~tx[lastCall.tx].cached
  /\ ExecutedOn(lastCall.tx)

\* the batch entry addQuery builds from its arguments
EntryOf(args) ==
  [statement |-> toString(args.queryBuilder), parameters |-> args.params]

\* C12: every successful addQuery appends exactly {statement: rendering of its
\* assembler, parameters: its params} behind the entries already there and
\* returns the same transaction; nothing else changes the batch, a new
\* Transaction starts with an empty one, and the body of the batch POST is the
\* batch, entry for entry, in call order.
C12_StatementsInCallOrder ==
  [][ /\ \A t \in DOMAIN tx :
           IF lastCall'.op = "addQuery" /\ lastCall'.tx = t /\ lastCall'.threw = Undefined
           THEN /\ tx'[t].statements = tx[t].statements \o <<EntryOf(lastCall'.args)>>
                /\ lastCall'.returned = t
           ELSE tx'[t].statements = tx[t].statements
      /\ \A t \in DOMAIN tx' \ DOMAIN tx : tx'[t].statements = <<>>
      /\ \A e \in DOMAIN exec' \ DOMAIN exec :
           \A i \in CallsOf(e, "post")' :
             exec'[e].calls[i].body = tx[exec'[e].tx].statements
      /\ \A e \in DOMAIN exec :
           \A i \in CallsOf(e, "post")' \ CallsOf(e, "post") :
             exec'[e].calls[i].target = <<tx[exec[e].tx].transactionUrl>>
               => exec'[e].calls[i].body = tx[exec[e].tx].statements ]_vars

C12_Witness ==
  \E e \in DOMAIN exec :
    LET st == tx[exec[e].tx].statements IN
      /\ Len(st) = 2
      /\ st[1] = [statement |-> <<"C", " ", "R">>, parameters |-> "p2"]
      /\ st[2] = [statement |-> <<"M", " ", "n", " ", "R">>, parameters |-> "p1"]
      /\ \E i \in BatchPostsOf(e) : exec[e].calls[i].body = st

\* C16: one execute() call issues at most one cache read, at most one batch
\* POST, at most one of rollback DELETE and finalize POST, and at most one
\* cache write; the batch POST follows a cache read that ended as a miss or an
\* error (when cache-eligible), the finalize POST follows a 200/201 batch
\* response with empty errors, the cache write follows a 200 finalize response.
C16_SequentialChain ==
  \A e \in DOMAIN exec :
    /\ Cardinality(CallsOf(e, "getData")) <= 1
    /\ Cardinality(BatchPostsOf(e)) <= 1
    /\ Cardinality(CallsOf(e, "delete")) + Cardinality(FinalizePostsOf(e)) <= 1
    /\ Cardinality(CallsOf(e, "setData")) <= 1
    /\ \A i \in BatchPostsOf(e) :
         IF CacheEligibleAtExecute(e)
         THEN /\ exec[e].cacheRead \in {"miss", "error"}
              /\ \E j \in CallsOf(e, "getData") : j < i
         ELSE CallsOf(e, "getData") = {}
    /\ \A i \in FinalizePostsOf(e) :
         /\ exec[e].res.status \in {200, 201}
         /\ exec[e].json.commit # ""
         /\ Len(exec[e].json.errors.payload) = 0
         /\ \E j \in BatchPostsOf(e) : j < i
    /\ \A i \in CallsOf(e, "delete") :
         /\ exec[e].res.status \notin {0, 200, 201}
         /\ \E j \in BatchPostsOf(e) : j < i
    /\ \A i \in CallsOf(e, "setData") :
         /\ exec[e].commitRes.status = 200
         /\ \E j \in FinalizePostsOf(e) : j < i

C16_Witness ==
  \E e \in DOMAIN exec :
    /\ exec[e].cacheRead = "miss"
    /\ Len(exec[e].calls) = 4
    /\ exec[e].calls[2].op = "getData"
    /\ 3 \in BatchPostsOf(e)
    /\ 4 \in FinalizePostsOf(e)
    /\ exec[e].commitRes.status = 200

\* C18: a Transaction is created with used = false; used is true in every
\* state in which one of its batch POSTs has been issued, and once true it
\* stays true in every later step.
C18_UsedIsSetAndStays ==
  [][ \A t \in DOMAIN tx' :
        /\ t \notin DOMAIN tx => ~tx'[t].used
        /\ (t \in DOMAIN tx /\ tx[t].used) => tx'[t].used
        /\ (\E e \in ExecsOf(t)' : BatchPostsOf(e)' # {}) => tx'[t].used ]_vars

C18_Witness ==
  \E e \in DOMAIN exec, f \in DOMAIN exec :
    /\ exec[e].tx = exec[f].tx
    /\ tx[exec[e].tx].used
    /\ exec[e].value = FetchError
    /\ exec[f].pc = "batch"

C20_CacheEligibleHasHandle ==
  [][ /\ \A t \in DOMAIN tx' :
           /\ tx'[t].cached => tx'[t].cacher
           /\ t \notin DOMAIN tx => ~tx'[t].cached
           /\ t \in DOMAIN tx =>
                /\ tx[t].cacher => tx'[t].cacher
                /\ (tx'[t].cached /\ ~tx[t].cached)
                     => (lastCall'.op = "cacheable" /\ lastCall'.tx = t /\ tx[t].cacher)
      /\ \A e \in DOMAIN exec' :
           exec'[e].value # Err("Attempt to use cacher without calling initCacheDB()") ]_vars

C20_Witness ==
  \E e \in DOMAIN exec :
    /\ tx[exec[e].tx].cached
    /\ tx[exec[e].tx].cacher
    /\ exec[e].commitRes.status = 200
    /\ exec[e].state = "resolved"

\* C13: whatever was added to a QueryBuilder, the rendered string holds no
\* newline, carriage return or tab, no two consecutive spaces, and no leading
\* or trailing whitespace; an empty assembler renders to the empty string.
C13_RenderedIsClean ==
  helperRet.called =>
    LET s == helperRet.value IN
      /\ \A i \in DOMAIN s : s[i] \notin LineBreaks
      /\ \A i \in 1..(Len(s) - 1) : ~(s[i] = " " /\ s[i + 1] = " ")
      /\ s # <<>> => (s[1] \notin Whitespace /\ s[Len(s)] \notin Whitespace)
      /\ helperArg = <<>> => s = <<>>

C13_Witness ==
  /\ helperArg = << <<"a", "\t", "a">>, <<"\n">> >>
  /\ helperRet.called
  /\ helperRet.value = <<"a", "a">>

\* C14: on a results array whose first entry has exactly one column and at
\* least one data row, getSimpleData returns the first cell of the first row,
\* for the wrapped shape {row: [v, ...]} and for the bare-array shape
\* [v, ...] alike; it returns null when the first entry is missing, has no
\* data, or has zero data rows.
C14_FirstCellOfFirstRow ==
  helperRet.called =>
    IF helperArg = <<>> \/ ~helperArg[1].hasData \/ Len(helperArg[1].data) = 0
    THEN ~helperRet.threw /\ helperRet.value = Null
    ELSE (/\ Len(helperArg[1].columns) = 1
          /\ helperArg[1].data[1].shape \in {"wrapped", "array"}
          /\ helperArg[1].data[1].cells # <<>>)
         => (~helperRet.threw /\ helperRet.value = helperArg[1].data[1].cells[1])

\* the rendering of one property as the claim C15 words it
C15_Rendered(p) ==
  IF p.value.kind = "string" THEN p.key \o <<":", "\"">> \o p.value.str \o <<"\"">>
  ELSE IF p.value.kind = "number" THEN p.key \o <<":">> \o NumberToString(p.value.num)
  ELSE IF p.value.kind = "boolean" THEN p.key \o <<":">> \o BooleanToString(p.value.bool)
  ELSE p.key \o <<":", "[", "]">>

\* C15: toProps renders, in key order and joined by ', ', a string value as
\* key:"value", a number or boolean as key:value, an array as key:[], and
\* throws 'property type not supported' when a value is of any other kind.
C15_PropsRendered ==
  helperRet.called =>
    IF \E i \in DOMAIN helperArg :
         helperArg[i].value.kind \notin {"string", "number", "boolean", "array"}
    THEN helperRet.threw /\ helperRet.value = Err(UnsupportedMessage)
    ELSE /\ ~helperRet.threw
         /\ helperRet.value =
              JoinWith([i \in DOMAIN helperArg |-> C15_Rendered(helperArg[i])], <<",", " ">>)

\* C17: once the promise of an execute() call is resolved or rejected its
\* state and value never change again, a call whose chain has ended is
\* settled, and, every issued cache read and HTTP request completing, every
\* execute() call is eventually settled, the rollback DELETE still in flight
\* or not.
C17_EverySettlesOnce ==
  /\ [][ /\ \A e \in DOMAIN exec :
              exec[e].state # "pending"
                => (exec'[e].state = exec[e].state /\ exec'[e].value = exec[e].value)
         /\ \A e \in DOMAIN exec' :
              /\ exec'[e].state \in {"pending", "resolved", "rejected"}
              /\ exec'[e].pc = "done" => exec'[e].state # "pending" ]_vars
  /\ \A e \in ExecIds :
       (e \in DOMAIN exec) ~> (e \in DOMAIN exec /\ exec[e].state # "pending")

C17_Witness ==
  \E e \in DOMAIN exec, f \in DOMAIN exec :
    /\ exec[e].state = "rejected"
    /\ exec[e].rollback = "inflight"
    /\ CacheEligibleAtExecute(f)
    /\ exec[f].state = "resolved"
    /\ exec[f].cacheRead = "miss"

\* the step is one of transaction t's own: an addQuery on t, an execute() of
\* t, or a callback of one of t's execute() calls
OwnStep(t) ==
  \/ lastCall'.op = "addQuery" /\ lastCall'.tx = t
  \/ \E e \in DOMAIN exec' : exec'[e].tx = t /\ (e \notin DOMAIN exec \/ exec'[e] # exec[e])

\* C11: with two transactions of one facade running side by side, the
\* statement list and the used flag of a transaction change only in its own
\* steps; every execute() posts its own transaction's batch, reads its own
\* cache entry, resolves with the value of that entry on a hit and with the
\* results of its own batch response otherwise, and rejects with an error of
\* its own chain.
C11_TransactionsDoNotInterfere ==
  [][ /\ \A t \in DOMAIN tx :
           (tx'[t].statements # tx[t].statements \/ tx'[t].used # tx[t].used)
             => OwnStep(t)
      /\ \A e \in DOMAIN exec' :
           LET x == exec'[e]
               t == exec'[e].tx
               slot == <<tx'[exec'[e].tx].cachePrefix, tx'[exec'[e].tx].cacheKey>>
           IN /\ \A i \in BatchPostsOf(e)' : x.calls[i].body = tx'[t].statements
              /\ \A i \in CallsOf(e, "getData")' : x.calls[i].target = slot
              /\ x.cacheRead = "hit" =>
                   (x.state = "resolved" /\ x.value = cache'.store[slot])
              /\ x.cacheRead = "miss" => cache'.store[slot] = Undefined
              /\ (x.state = "resolved" /\ x.cacheRead # "hit") => x.value = x.json.results
              /\ x.state = "rejected" =>
                   x.value \in {ReferenceError, FetchError, JsonError,
                                Err(x.res.statusText), x.json.errors,
                                Err(CommitFailedMessage)} ]_vars

C11_Witness ==
  /\ Len(exec) = 2
  /\ exec[1].tx = 1 /\ exec[2].tx = 2
  /\ tx[1].statements # tx[2].statements
  /\ exec[1].pc = "cacheRead"
  /\ cache.prefix = "pb"
  /\ exec[2].cacheRead = "miss"
  /\ exec[2].state = "resolved"
  /\ exec[2].value = Arr(<<"row2">>)

====
